---- MODULE Spec2Model ----
(***************************************************************************)
(* hex-reader: the Intel HEX record decoder (Context), the address-space   *)
(* model (HexFile, AddrRange, Data) and the ELF emitter (to_elf_file).     *)
(*                                                                         *)
(* Bytes of the input buffer are one-character strings.  A u32 is held as  *)
(* its two's-complement reading (0xFFFFFFFF is -1), so that + and - are    *)
(* the wrapping operations as long as no value passes 2^31 in magnitude;   *)
(* comparisons go through Lt32/Le32, the unsigned order.                   *)
(***************************************************************************)
EXTENDS Integers, Sequences, FiniteSets, TLC

VARIABLES
    input,            \* the records the input buffer was written from
    buf,              \* Context.buf: the bytes not yet consumed
    addr_hi,          \* Context.addr_hi: <<>> is None, <<h>> is Some(h)
    eof,              \* Context.eof
    line_idx,         \* Context.line_idx
    start,            \* HexFile.start: <<>> is None, <<[cs, ip]>> is Some
    data,             \* HexFile.data (into_hex_file's local until returned)
    pc,               \* "decoding", "ready", "failed", "panicked", "emitted"
    err,              \* the error into_hex_file returned
    overflow_checks,  \* the build: TRUE panics on u32 overflow, FALSE wraps
    last,             \* the last transpose call, its arguments and outcome
    transposes,       \* number of transpose calls made
    elf_data          \* the bytes to_elf_file wrote

vars == <<input, buf, addr_hi, eof, line_idx, start, data, pc, err,
          overflow_checks, last, transposes, elf_data>>

-----------------------------------------------------------------------------
(* Bounds *)

MaxLines == 3
MaxLineIdx == 5
MaxTransposes == 1

-----------------------------------------------------------------------------
(* Sequences *)

RECURSIVE Flatten(_)
Flatten(ss) == IF ss = <<>> THEN <<>> ELSE Head(ss) \o Flatten(Tail(ss))

Range(s) == {s[i] : i \in 1..Len(s)}

\* slice.get(a..=b) with 0-based a, b: <<>> when out of bounds, else <<field>>
Get(line, a, b) == IF b < Len(line) THEN <<SubSeq(line, a + 1, b + 1)>> ELSE <<>>

\* slice[a..] with 0-based a (a <= len)
From(line, a) == SubSeq(line, a + 1, Len(line))

RECURSIVE Chunks2(_)
Chunks2(s) ==
    IF s = <<>> THEN <<>>
    ELSE IF Len(s) = 1 THEN <<s>>
    ELSE <<SubSeq(s, 1, 2)>> \o Chunks2(SubSeq(s, 3, Len(s)))

Take(s, n) == SubSeq(s, 1, IF n < Len(s) THEN n ELSE Len(s))

-----------------------------------------------------------------------------
(* u32 arithmetic *)

Lt32(a, b) == IF (a < 0) = (b < 0) THEN a < b ELSE b < 0
Le32(a, b) == a = b \/ Lt32(a, b)

\* a + b passes 2^32
AddOverflows(a, b) ==
    IF a < 0 /\ b < 0 THEN TRUE
    ELSE IF a < 0 \/ b < 0 THEN a + b >= 0
    ELSE FALSE

\* a - b goes below 0
SubOverflows(a, b) == Lt32(a, b)

-----------------------------------------------------------------------------
(* Hexadecimal text *)

UpperHex == <<"0","1","2","3","4","5","6","7","8","9","A","B","C","D","E","F">>
LowerHex == <<"0","1","2","3","4","5","6","7","8","9","a","b","c","d","e","f">>

\* a byte that is no UTF-8 text
NonUtf8 == {"<FF>"}

IsHexDigit(c) == \E i \in 1..16 : UpperHex[i] = c \/ LowerHex[i] = c
DigitVal(c) == (CHOOSE i \in 1..16 : UpperHex[i] = c \/ LowerHex[i] = c) - 1

\* std::str::from_utf8(field).is_ok()
FromUtf8Ok(field) == \A i \in 1..Len(field) : field[i] \notin NonUtf8

RECURSIVE DigitsVal(_, _)
DigitsVal(digits, acc) ==
    IF digits = <<>> THEN acc
    ELSE DigitsVal(Tail(digits), acc * 16 + DigitVal(Head(digits)))

\* uN::from_str_radix(field, 16): <<>> is Err, <<v>> is Ok(v).  One leading
\* "+" is accepted when a digit follows; the fields read here are too short
\* to pass the type's range.
FromStrRadix(field) ==
    IF field = <<>> THEN <<>>
    ELSE LET digits == IF Head(field) = "+" THEN Tail(field) ELSE field
         IN  IF digits = <<>> THEN <<>>
             ELSE IF \A i \in 1..Len(digits) : IsHexDigit(digits[i])
                  THEN <<DigitsVal(digits, 0)>>
                  ELSE <<>>

\* from_str_radix(from_utf8(field)?, 16)?
ParseField(field) == IF FromUtf8Ok(field) THEN FromStrRadix(field) ELSE <<>>

Hex2(n) == <<UpperHex[(n \div 16) + 1], UpperHex[(n % 16) + 1]>>
Hex4(n) == Hex2(n \div 256) \o Hex2(n % 256)

-----------------------------------------------------------------------------
(* Input buffers: records written as lines ":LLAAAATT[DD...]CC" *)

Sum(bytes) == LET RECURSIVE S(_)
                  S(b) == IF b = <<>> THEN 0 ELSE Head(b) + S(Tail(b))
              IN  S(bytes)

CheckSum(len, off, type, bytes) ==
    (256 - ((len + (off \div 256) + (off % 256) + type + Sum(bytes)) % 256)) % 256

RenderRecord(len, off, type, bytes) ==
    <<":">> \o Hex2(len) \o Hex4(off) \o Hex2(type)
            \o Flatten([i \in 1..Len(bytes) |-> Hex2(bytes[i])])
            \o Hex2(CheckSum(len, off, type, bytes))

\* a well-formed line, with the record it was written from
Line(len, off, type, bytes) ==
    [wf |-> TRUE, len |-> len, off |-> off, type |-> type, bytes |-> bytes,
     text |-> RenderRecord(len, off, type, bytes)]

\* any other line
Raw(text) ==
    [wf |-> FALSE, len |-> 0, off |-> 0, type |-> 0, bytes |-> <<>>, text |-> text]

\* the byte stored at each address of a Data line is chosen by its offset
Dat(off, len) == Line(len, off, 0, [i \in 1..len |-> (3 * off + i) % 256])
EofLine == Line(0, 0, 1, <<>>)
Ssa(cs, ip) == Line(4, 0, 3, <<cs \div 256, cs % 256, ip \div 256, ip % 256>>)
Esa(hi) == Line(2, 0, 4, <<hi \div 256, hi % 256>>)

\* text with the byte at 0-based position p replaced by c
Spoil(text, p, c) == [text EXCEPT ![p + 1] = c]

DataPool == {Dat(0, 2), Dat(2, 2), Dat(4, 1), Dat(8, 3), Dat(0, 0)}

DecodePool ==
    {Dat(16, 1), Esa(1), Esa(2), Ssa(0, 193), EofLine,
     Raw(Spoil(Dat(16, 1).text, 8, "G")),
     Raw(Take(Dat(16, 1).text, 8)),
     Raw(Take(Dat(16, 2).text, 11)),
     Raw(Take(Dat(16, 2).text, 12))}

ElfPool == {Dat(16, 4), Dat(190, 2), Dat(191, 3), Dat(192, 2), Esa(257), Esa(16384)}

Themes ==
    {[pool |-> DataPool, closing |-> <<EofLine>>, newline |-> {TRUE}],
     [pool |-> DecodePool, closing |-> <<>>, newline |-> BOOLEAN],
     [pool |-> ElfPool, closing |-> <<EofLine>>, newline |-> {TRUE}]}

\* the lines joined by "\n", the last one newline-terminated or not
RECURSIVE RenderBuffer(_, _)
RenderBuffer(lines, nl) ==
    IF lines = <<>> THEN <<>>
    ELSE IF Len(lines) = 1 THEN Head(lines).text \o (IF nl THEN <<"\n">> ELSE <<>>)
    ELSE Head(lines).text \o <<"\n">> \o RenderBuffer(Tail(lines), nl)

TransposeSrc == {0, 8}
TransposeDest == {2, 3, 8, 12}

-----------------------------------------------------------------------------
(* Record decoder *)

NoErr == [kind |-> "", line |-> 0]
NoData == [addr |-> 0, data |-> <<>>]
NoStart == [cs |-> 0, ip |-> 0]

\* an error whose message starts "Line {idx}:"
LineErr(kind, idx) == [kind |-> kind, line |-> idx]
\* an error converted by "?" from ParseIntError or Utf8Error: no line number
BareErr(kind) == [kind |-> kind, line |-> 0]

Res(tag) == [tag |-> tag, err |-> NoErr, d |-> NoData, s |-> NoStart]
ResErr(e) == [Res("Err") EXCEPT !.err = e]

\* the error of from_str_radix(from_utf8(field)?, 16)? on a field it rejects
FieldErr(field) ==
    BareErr(IF FromUtf8Ok(field) THEN "ParseIntError" ELSE "Utf8Error")

HasNextLine(b) == b # <<>>

\* Context::next_line: [some, idx, line, buf, line_idx]
NextLine(b, li) ==
    IF b = <<>> THEN [some |-> FALSE, idx |-> li, line |-> <<>>, buf |-> b, line_idx |-> li]
    ELSE IF \E i \in 1..Len(b) : b[i] = "\n"
         THEN LET idx == CHOOSE i \in 1..Len(b) :
                            b[i] = "\n" /\ \A j \in 1..(i - 1) : b[j] # "\n"
              IN  [some |-> TRUE, idx |-> li + 1, line |-> SubSeq(b, 1, idx - 1),
                   buf |-> SubSeq(b, idx + 1, Len(b)), line_idx |-> li + 1]
         ELSE [some |-> TRUE, idx |-> li + 1, line |-> b, buf |-> b, line_idx |-> li + 1]

\* the data bytes of a Data line: the first len two-byte chunks from offset 9
RECURSIVE ParseBytes(_, _)
ParseBytes(chunks, acc) ==
    IF chunks = <<>> THEN [ok |-> TRUE, bytes |-> acc, bad |-> <<>>]
    ELSE IF ParseField(Head(chunks)) = <<>>
         THEN [ok |-> FALSE, bytes |-> acc, bad |-> Head(chunks)]
         ELSE ParseBytes(Tail(chunks), Append(acc, ParseField(Head(chunks))[1]))

\* AbsoluteAddr shifting the high half by 8 bits instead of 16
AbsoluteAddrShift8(hi, addr) ==
    IF hi # <<>> THEN hi[1] * 256 + addr ELSE addr

\* (addr_hi << 16) | addr, or addr alone
AbsoluteAddr(hi, addr) ==
    IF hi # <<>>
    THEN (IF hi[1] >= 32768 THEN hi[1] - 65536 ELSE hi[1]) * 65536 + addr
    ELSE addr

\* next_record, kind 0x00
DataRecord(idx, line, hi) ==
    LET lenf  == Get(line, 1, 2)
        addrf == Get(line, 3, 6)
    IN  IF lenf = <<>> THEN ResErr(LineErr("NoLenField", idx))
        ELSE IF ParseField(lenf[1]) = <<>> THEN ResErr(FieldErr(lenf[1]))
        ELSE IF addrf = <<>> THEN ResErr(LineErr("NoAddrField", idx))
        ELSE IF ParseField(addrf[1]) = <<>> THEN ResErr(FieldErr(addrf[1]))
        ELSE LET len == ParseField(lenf[1])[1]
                 addr == ParseField(addrf[1])[1]
                 got == ParseBytes(Take(Chunks2(From(line, 9)), len), <<>>)
             IN  IF ~got.ok THEN ResErr(FieldErr(got.bad))
                 ELSE IF Len(got.bytes) < len THEN ResErr(LineErr("TooFewData", idx))
                 ELSE [Res("Data") EXCEPT
                          !.d = [addr |-> AbsoluteAddr(hi, addr), data |-> got.bytes]]

\* next_record, kind 0x03
StartRecord(idx, line) ==
    LET csf == Get(line, 9, 12)
        ipf == Get(line, 13, 16)
    IN  IF csf = <<>> THEN ResErr(LineErr("NoCsField", idx))
        ELSE IF ParseField(csf[1]) = <<>> THEN ResErr(FieldErr(csf[1]))
        ELSE IF ipf = <<>> THEN ResErr(LineErr("NoIpField", idx))
        ELSE IF ParseField(ipf[1]) = <<>> THEN ResErr(FieldErr(ipf[1]))
        ELSE [Res("Start") EXCEPT
                 !.s = [cs |-> ParseField(csf[1])[1], ip |-> ParseField(ipf[1])[1]]]

\* next_record, kind 0x04: [res, addr_hi]
ExtendedRecord(idx, line, hi) ==
    LET hif == Get(line, 9, 12)
    IN  IF hif = <<>> THEN [res |-> ResErr(LineErr("NoAddrHiField", idx)), addr_hi |-> hi]
        ELSE IF ParseField(hif[1]) = <<>>
             THEN [res |-> ResErr(FieldErr(hif[1])), addr_hi |-> hi]
             ELSE [res |-> Res("None"), addr_hi |-> <<ParseField(hif[1])[1]>>]

\* Context::next_record: [res, buf, addr_hi, eof, line_idx]
NextRecord(b, hi, e, li) ==
    LET keep(res) == [res |-> res, buf |-> b, addr_hi |-> hi, eof |-> e, line_idx |-> li]
    IN
    IF e THEN (IF HasNextLine(b) THEN keep(ResErr(BareErr("LineAfterEof")))
               ELSE keep(Res("None")))
    ELSE
    LET nl == NextLine(b, li)
        idx == nl.idx
        line == nl.line
        at(res) == [res |-> res, buf |-> nl.buf, addr_hi |-> hi, eof |-> e,
                    line_idx |-> nl.line_idx]
        kindf == Get(line, 7, 8)
    IN  IF ~nl.some THEN keep(ResErr(BareErr("UnexpectedEof")))
        ELSE IF line = <<>> THEN at(ResErr(LineErr("EmptyLine", idx)))
        ELSE IF line[1] # ":" THEN at(ResErr(LineErr("NoColon", idx)))
        ELSE IF kindf = <<>> THEN at(ResErr(LineErr("NoKindField", idx)))
        ELSE IF ParseField(kindf[1]) = <<>> THEN at(ResErr(FieldErr(kindf[1])))
        ELSE LET kind == ParseField(kindf[1])[1]
             IN  CASE kind = 0 -> at(DataRecord(idx, line, hi))
                   [] kind = 1 -> [at(Res("Eof")) EXCEPT !.eof = TRUE]
                   [] kind = 3 -> at(StartRecord(idx, line))
                   [] kind = 4 -> [at(ExtendedRecord(idx, line, hi).res) EXCEPT
                                      !.addr_hi = ExtendedRecord(idx, line, hi).addr_hi]
                   [] OTHER -> at(ResErr(LineErr("UnknownKind", idx)))

\* data.sort_by(|l, r| l.addr.cmp(&r.addr)): stable
InsertByAddr(sorted, d) ==
    LET n == Cardinality({i \in 1..Len(sorted) : Le32(sorted[i].addr, d.addr)})
    IN  SubSeq(sorted, 1, n) \o <<d>> \o SubSeq(sorted, n + 1, Len(sorted))

RECURSIVE SortFrom(_, _)
SortFrom(sorted, rest) ==
    IF rest = <<>> THEN sorted
    ELSE SortFrom(InsertByAddr(sorted, Head(rest)), Tail(rest))

SortByAddr(ds) == SortFrom(<<>>, ds)

-----------------------------------------------------------------------------
(* Address-space model *)

Panic == "panic"

\* addr + len - 1 in u32: [panic, val]
CheckedEnd(addr, len) ==
    [panic |-> overflow_checks /\ (AddOverflows(addr, len) \/ SubOverflows(addr + len, 1)),
     val |-> addr + len - 1]

\* Data::addr_range: [panic, range]
DataAddrRange(d) ==
    [panic |-> CheckedEnd(d.addr, Len(d.data)).panic,
     range |-> [start |-> d.addr, end |-> CheckedEnd(d.addr, Len(d.data)).val]]

\* AddrRange::contains
Contains(r, addr) == Le32(r.start, addr) /\ Le32(addr, r.end)

\* AddrRange::contains_range
ContainsRange(r, range) == Le32(r.start, range.start) /\ Le32(range.end, r.end)

\* AddrRange::overlaps_range
OverlapsRange(r, range) == Contains(r, range.start) \/ Contains(r, range.end)

\* Split refusing only a point before the start or after the end
SplitLoose(r, at) ==
    IF Lt32(at, r.start) \/ Lt32(r.end, at)
    THEN [panic |-> TRUE, before |-> r, after |-> r]
    ELSE [panic |-> FALSE,
          before |-> [start |-> r.start, end |-> at - 1],
          after |-> [start |-> at, end |-> r.end]]

\* AddrRange::split: [panic, before, after]
Split(r, at) ==
    IF Le32(at, r.start) \/ Le32(r.end, at)
    THEN [panic |-> TRUE, before |-> r, after |-> r]
    ELSE [panic |-> FALSE,
          before |-> [start |-> r.start, end |-> at - 1],
          after |-> [start |-> at, end |-> r.end]]

\* AddrRange::size: [panic, val]
Size(r) ==
    [panic |-> overflow_checks /\ (SubOverflows(r.end, r.start)
                                   \/ AddOverflows(r.end - r.start, 1)),
     val |-> r.end - r.start + 1]

\* AddrRange::transpose: [panic, range]
RangeTranspose(r, dest) ==
    IF Le32(r.start, dest)
    THEN [panic |-> overflow_checks /\ AddOverflows(r.end, dest - r.start),
          range |-> [start |-> dest, end |-> r.end + (dest - r.start)]]
    ELSE [panic |-> overflow_checks /\ SubOverflows(r.end, r.start - dest),
          range |-> [start |-> dest, end |-> r.end - (r.start - dest)]]

\* the loop of HexFile::address_ranges over the chunks after the first
RECURSIVE RangesLoop(_, _, _, _)
RangesLoop(rest, ranges, s, e) ==
    IF rest = <<>>
    THEN [panic |-> FALSE, ranges |-> Append(ranges, [start |-> s, end |-> e])]
    ELSE LET d == Head(rest)
             de == CheckedEnd(d.addr, Len(d.data))
         IN  IF (overflow_checks /\ AddOverflows(e, 1)) \/ de.panic
             THEN [panic |-> TRUE, ranges |-> <<>>]
             ELSE IF d.addr # e + 1
                  THEN RangesLoop(Tail(rest), Append(ranges, [start |-> s, end |-> e]),
                                  d.addr, de.val)
                  ELSE RangesLoop(Tail(rest), ranges, s, de.val)

\* HexFile::address_ranges: [panic, ranges]; panics on an image without chunks
AddressRanges(ds) ==
    IF ds = <<>> THEN [panic |-> TRUE, ranges |-> <<>>]
    ELSE LET first == Head(ds)
             fe == CheckedEnd(first.addr, Len(first.data))
         IN  IF fe.panic THEN [panic |-> TRUE, ranges |-> <<>>]
             ELSE RangesLoop(Tail(ds), <<>>, first.addr, fe.val)

\* HexFile::data_in_range: [panic, bytes]
RECURSIVE DataInRange(_, _)
DataInRange(ds, range) ==
    IF ds = <<>> THEN [panic |-> FALSE, bytes |-> <<>>]
    ELSE LET cur == DataAddrRange(Head(ds))
             more == DataInRange(Tail(ds), range)
         IN  IF cur.panic \/ more.panic THEN [panic |-> TRUE, bytes |-> <<>>]
             ELSE IF ContainsRange(range, cur.range)
                  THEN [panic |-> FALSE, bytes |-> Head(ds).data \o more.bytes]
                  ELSE more

\* HexFile::start_addr: <<>> or <<(cs << 16) | ip>>
StartAddr(st) ==
    IF st = <<>> THEN <<>>
    ELSE <<(IF st[1].cs >= 32768 THEN st[1].cs - 65536 ELSE st[1].cs) * 65536 + st[1].ip>>

\* Data::transpose
DataTranspose(d, dest) == [d EXCEPT !.addr = dest]

\* the chunks after HexFile::transpose has moved those of src_range
MoveChunks(ds, src_range, dest) ==
    [i \in 1..Len(ds) |->
        IF Contains(src_range, ds[i].addr) THEN DataTranspose(ds[i], dest) ELSE ds[i]]

\* HexFileTranspose moving the chunks before it checks the destination
HexFileTransposeEager(ds, src, dest) ==
    LET ar == AddressRanges(ds)
        ranges == ar.ranges
    IN  IF ar.panic THEN [result |-> Panic, data |-> ds]
        ELSE IF \A i \in 1..Len(ranges) : ranges[i].start # src
        THEN [result |-> "NoRange", data |-> ds]
        ELSE LET k == CHOOSE i \in 1..Len(ranges) :
                          /\ ranges[i].start = src
                          /\ \A j \in 1..(i - 1) : ranges[j].start # src
                 src_range == ranges[k]
                 dr == RangeTranspose(src_range, dest)
             IN  IF dr.panic THEN [result |-> Panic, data |-> ds]
                 ELSE [result |-> IF \E i \in 1..Len(ranges) :
                                        OverlapsRange(ranges[i], dr.range)
                                  THEN "Overlap" ELSE "ok",
                       data |-> MoveChunks(ds, src_range, dest)]

\* HexFile::transpose: [result, data], result one of "ok", "NoRange",
\* "Overlap", Panic
HexFileTranspose(ds, src, dest) ==
    LET ar == AddressRanges(ds)
        ranges == ar.ranges
    IN  IF ar.panic THEN [result |-> Panic, data |-> ds]
        ELSE IF \A i \in 1..Len(ranges) : ranges[i].start # src
        THEN [result |-> "NoRange", data |-> ds]
        ELSE LET k == CHOOSE i \in 1..Len(ranges) :
                          /\ ranges[i].start = src
                          /\ \A j \in 1..(i - 1) : ranges[j].start # src
                 src_range == ranges[k]
                 dr == RangeTranspose(src_range, dest)
             IN  IF dr.panic THEN [result |-> Panic, data |-> ds]
                 ELSE IF \E i \in 1..Len(ranges) : OverlapsRange(ranges[i], dr.range)
                 THEN [result |-> "Overlap", data |-> ds]
                 ELSE [result |-> "ok", data |-> MoveChunks(ds, src_range, dest)]

-----------------------------------------------------------------------------
(* ELF emitter *)

FLASH_DATA_RANGE == [start |-> 0, end |-> 191]
CODE_RANGE == [start |-> 192, end |-> 262143]
OPT_RANGE == [start |-> 16842760, end |-> 16842803]
SRAM_RANGE == [start |-> 1073741824, end |-> 1074790399]

VECTOR_TABLE_END == 192

ELF_MAGIC == <<127, 69, 76, 70>>
ELFCLASS32 == 1
ELFDATA2LSB == 1
EV_CURRENT == 1
ELFOSABI_SYSV == 0
ET_EXEC == 2
EM_ARM == 40
SHT_PROGBITS == 1
SHT_STRTAB == 3
SHF_WRITE == 1
SHF_ALLOC == 2
SHF_EXECINSTR == 4

\* mem::size_of::<ElfHeader>() and mem::size_of::<SectionHeader>()
ElfHeaderSize == 52
SectionHeaderSize == 40

\* b".flash", b".text", b".opt", b".data", b".shstrtab"
FlashName == <<46, 102, 108, 97, 115, 104>>
TextName == <<46, 116, 101, 120, 116>>
OptName == <<46, 111, 112, 116>>
DataName == <<46, 100, 97, 116, 97>>
StrTabName == <<46, 115, 104, 115, 116, 114, 116, 97, 98>>

Zeros(n) == [i \in 1..n |-> 0]

\* the little-endian bytes of a u16 and of a u32
LE16(x) == <<x % 256, (x \div 256) % 256>>
LE32(x) == <<x % 256, (x \div 256) % 256, (x \div 65536) % 256, (x \div 16777216) % 256>>

\* range_to_section: [panic, section]; unreachable!() outside every window
RangeToSection(range) ==
    LET sec(kind, name) ==
            [panic |-> FALSE, section |-> [range |-> range, kind |-> kind, name |-> name]]
    IN  IF ContainsRange(FLASH_DATA_RANGE, range) THEN sec("Flash", FlashName)
        ELSE IF ContainsRange(CODE_RANGE, range) THEN sec("Code", TextName)
        ELSE IF ContainsRange(OPT_RANGE, range) THEN sec("Opt", OptName)
        ELSE IF ContainsRange(SRAM_RANGE, range) THEN sec("Sram", DataName)
        ELSE [panic |-> TRUE, section |-> [range |-> range, kind |-> "", name |-> <<>>]]

\* to_elf_file, the loop over addr_ranges: [panic, sections]
RECURSIVE SectionsOf(_)
SectionsOf(ranges) ==
    IF ranges = <<>> THEN [panic |-> FALSE, sections |-> <<>>]
    ELSE LET range == Head(ranges)
             sp == Split(range, VECTOR_TABLE_END)
             whole == RangeToSection(range)
             before == RangeToSection(sp.before)
             after == RangeToSection(sp.after)
             more == SectionsOf(Tail(ranges))
         IN  IF Contains(range, VECTOR_TABLE_END)
             THEN IF sp.panic \/ before.panic \/ after.panic \/ more.panic
                  THEN [panic |-> TRUE, sections |-> <<>>]
                  ELSE [panic |-> FALSE,
                        sections |-> <<before.section, after.section>> \o more.sections]
             ELSE IF whole.panic \/ more.panic
                  THEN [panic |-> TRUE, sections |-> <<>>]
                  ELSE [panic |-> FALSE, sections |-> <<whole.section>> \o more.sections]

\* to_elf_file, "Fill out the sections": [panic, elf, offsets]
RECURSIVE WriteSections(_, _, _, _)
WriteSections(ds, sections, elf, offsets) ==
    IF sections = <<>> THEN [panic |-> FALSE, elf |-> elf, offsets |-> offsets]
    ELSE LET bytes == DataInRange(ds, Head(sections).range)
         IN  IF bytes.panic THEN [panic |-> TRUE, elf |-> elf, offsets |-> offsets]
             ELSE WriteSections(ds, Tail(sections), elf \o bytes.bytes,
                                Append(offsets, Len(elf)))

\* to_elf_file, the loop writing the section names: [elf, names, len]
RECURSIVE WriteNames(_, _, _, _, _)
WriteNames(sections, elf, start_off, names, len) ==
    IF sections = <<>> THEN [elf |-> elf, names |-> names, len |-> len]
    ELSE WriteNames(Tail(sections), elf \o Head(sections).name \o <<0>>, start_off,
                    Append(names, Len(elf) - start_off),
                    len + Len(Head(sections).name) + 1)

SectionType(kind) == IF kind = "StrTab" THEN SHT_STRTAB ELSE SHT_PROGBITS

SectionFlags(kind) ==
    CASE kind = "Flash" -> SHF_ALLOC
      [] kind = "Code" -> SHF_ALLOC + SHF_EXECINSTR
      [] kind = "Opt" -> SHF_ALLOC
      [] kind = "Sram" -> SHF_ALLOC + SHF_WRITE
      [] kind = "StrTab" -> 0

\* the bytes of one SectionHeader
SectionHeaderBytes(section, name, offset) ==
    LE32(name) \o LE32(SectionType(section.kind)) \o LE32(SectionFlags(section.kind))
        \o LE32(IF section.kind = "StrTab" THEN 0 ELSE section.range.start)
        \o LE32(offset) \o LE32(Size(section.range).val) \o Zeros(16)

\* ElfHeaderBytes naming sections.len() as the string-table index
ElfHeaderBytesStrIdxLen(entry, sh_off, n) ==
    ELF_MAGIC \o <<ELFCLASS32, ELFDATA2LSB, EV_CURRENT, ELFOSABI_SYSV, 0>> \o Zeros(7)
        \o LE16(ET_EXEC) \o LE16(EM_ARM) \o LE32(EV_CURRENT) \o LE32(entry)
        \o LE32(0) \o LE32(sh_off) \o LE32(0)
        \o LE16(ElfHeaderSize) \o LE16(0) \o LE16(0)
        \o LE16(SectionHeaderSize) \o LE16(n) \o LE16(n)

\* the bytes of the ElfHeader for n sections
ElfHeaderBytes(entry, sh_off, n) ==
    ELF_MAGIC \o <<ELFCLASS32, ELFDATA2LSB, EV_CURRENT, ELFOSABI_SYSV, 0>> \o Zeros(7)
        \o LE16(ET_EXEC) \o LE16(EM_ARM) \o LE32(EV_CURRENT) \o LE32(entry)
        \o LE32(0) \o LE32(sh_off) \o LE32(0)
        \o LE16(ElfHeaderSize) \o LE16(0) \o LE16(0)
        \o LE16(SectionHeaderSize) \o LE16(n) \o LE16(n - 1)

\* start_addr().unwrap_or(0) & 0xFFFF_FFFE
EntryPoint(st) ==
    IF StartAddr(st) = <<>> THEN 0 ELSE StartAddr(st)[1] - (StartAddr(st)[1] % 2)

\* to_elf_file: [panic, elf_data]
ToElfFile(ds, st) ==
    LET ar == AddressRanges(ds)
        secs == SectionsOf(ar.ranges)
        body == WriteSections(ds, secs.sections, Zeros(ElfHeaderSize), <<>>)
        strtab == [range |-> [start |-> 0, end |-> 0], kind |-> "StrTab",
                   name |-> StrTabName]
        sections0 == Append(secs.sections, strtab)
        start_off == Len(body.elf)
        offsets == Append(body.offsets, start_off)
        names == WriteNames(sections0, Append(body.elf, 0), start_off, <<>>, 1)
        sections == [sections0 EXCEPT ![Len(sections0)].range.end = names.len - 1]
        sh_off == Len(names.elf)
        headers == Flatten([i \in 1..Len(sections) |->
                              SectionHeaderBytes(sections[i], names.names[i], offsets[i])])
        hdr == ElfHeaderBytes(EntryPoint(st), sh_off, Len(sections))
        written == names.elf \o headers
    IN  IF ar.panic \/ secs.panic \/ body.panic
           \/ \E i \in 1..Len(sections) : Size(sections[i].range).panic
        THEN [panic |-> TRUE, elf_data |-> <<>>]
        ELSE [panic |-> FALSE,
              elf_data |-> hdr \o SubSeq(written, Len(hdr) + 1, Len(written))]

NoCall == [op |-> "none", src |-> 0, dest |-> 0, result |-> "", before |-> <<>>]

Init ==
    \E th \in Themes, n \in 0..MaxLines, oc \in BOOLEAN :
        \E body \in [1..n -> th.pool], nl \in th.newline :
            /\ input = body \o th.closing
            /\ buf = RenderBuffer(body \o th.closing, nl)
            /\ addr_hi = <<>>
            /\ eof = FALSE
            /\ line_idx = 0
            /\ start = <<>>
            /\ data = <<>>
            /\ pc = "decoding"
            /\ err = NoErr
            /\ overflow_checks = oc
            /\ last = NoCall
            /\ transposes = 0
            /\ elf_data = <<>>

\* one turn of into_hex_file's loop; the turn that reads the EOF record sorts
\* the chunks and returns the image
IntoHexFileStep ==
    /\ pc = "decoding"
    /\ line_idx < MaxLineIdx
    /\ LET r == NextRecord(buf, addr_hi, eof, line_idx)
       IN  /\ buf' = r.buf
           /\ addr_hi' = r.addr_hi
           /\ eof' = r.eof
           /\ line_idx' = r.line_idx
           /\ CASE r.res.tag = "Err" ->
                     /\ pc' = "failed"
                     /\ err' = r.res.err
                     /\ data' = <<>>
                     /\ start' = <<>>
                [] r.res.tag = "Eof" ->
                     /\ pc' = "ready"
                     /\ data' = SortByAddr(data)
                     /\ UNCHANGED <<err, start>>
                [] r.res.tag = "Data" ->
                     /\ data' = Append(data, r.res.d)
                     /\ UNCHANGED <<pc, err, start>>
                [] r.res.tag = "Start" ->
                     /\ start' = <<r.res.s>>
                     /\ UNCHANGED <<pc, err, data>>
                [] OTHER -> UNCHANGED <<pc, err, data, start>>
    /\ UNCHANGED <<input, overflow_checks, last, transposes, elf_data>>

\* a call of HexFile::transpose on the decoded image
Transpose ==
    /\ pc = "ready"
    /\ transposes < MaxTransposes
    /\ \E src \in TransposeSrc, dest \in TransposeDest :
          LET r == HexFileTranspose(data, src, dest)
          IN  /\ data' = r.data
              /\ last' = [op |-> "transpose", src |-> src, dest |-> dest,
                          result |-> r.result, before |-> data]
              /\ pc' = IF r.result = Panic THEN "panicked" ELSE pc
    /\ transposes' = transposes + 1
    /\ UNCHANGED <<input, buf, addr_hi, eof, line_idx, start, err,
                   overflow_checks, elf_data>>

\* a call of to_elf_file on the image
EmitElf ==
    /\ pc = "ready"
    /\ LET r == ToElfFile(data, start)
       IN  /\ elf_data' = r.elf_data
           /\ pc' = IF r.panic THEN "panicked" ELSE "emitted"
           /\ last' = [op |-> "to_elf_file", src |-> 0, dest |-> 0,
                       result |-> IF r.panic THEN Panic ELSE "ok", before |-> data]
    /\ UNCHANGED <<input, buf, addr_hi, eof, line_idx, start, data, err,
                   overflow_checks, transposes>>

Next == IntoHexFileStep \/ Transpose \/ EmitElf

Spec == Init /\ [][Next]_vars

-----------------------------------------------------------------------------
(* Properties of decoding and of the address-space model *)

\* the addresses the properties look at: those of every Data-only input,
\* and the last address of the u32 space
AddrProbe == (0 - 1)..260

IsData(r) == r.wf /\ r.type = 0
IsEsa(r) == r.wf /\ r.type = 4

\* the input is one or more Data records and the closing EOF record
DataOnlyInput ==
    /\ Len(input) >= 2
    /\ input[Len(input)] = EofLine
    /\ \A i \in 1..(Len(input) - 1) : IsData(input[i])

LineAddrs(r) == r.off..(r.off + r.len - 1)
RangeAddrs(r) == {a \in AddrProbe : Contains(r, a)}

NoOverlapInput ==
    \A i, j \in 1..(Len(input) - 1) : i # j => LineAddrs(input[i]) \cap LineAddrs(input[j]) = {}

\* into_hex_file has returned the image and nothing has been done to it
Decoded == pc = "ready" /\ last.op = "none"

RangesCover(ranges) ==
    /\ UNION {RangeAddrs(ranges[i]) : i \in 1..Len(ranges)}
         = UNION {LineAddrs(input[i]) : i \in 1..(Len(input) - 1)}
    /\ \A i, j \in 1..Len(ranges) :
          i # j => RangeAddrs(ranges[i]) \cap RangeAddrs(ranges[j]) = {}

\* C1: for a Data-only input of non-overlapping chunks in any line order,
\* address_ranges() of the decoded image returns ranges that cover exactly the
\* addresses of the input chunks, and no two of them overlap.
C1_RangesCoverInput ==
    (Decoded /\ DataOnlyInput /\ NoOverlapInput)
        => /\ ~AddressRanges(data).panic
           /\ RangesCover(AddressRanges(data).ranges)

\* the same for inputs whose Data records all hold at least one byte
C1_RangesCoverNonEmptyInput ==
    (Decoded /\ DataOnlyInput /\ NoOverlapInput
       /\ \A i \in 1..(Len(input) - 1) : input[i].len >= 1)
        => /\ ~AddressRanges(data).panic
           /\ RangesCover(AddressRanges(data).ranges)

\* the last call was transpose(src, dest) on an image of non-empty chunks
\* whose address_ranges() has a range starting at src
TransposedFrom(k) ==
    /\ last.op = "transpose"
    /\ \A i \in 1..Len(last.before) : Len(last.before[i].data) >= 1
    /\ ~AddressRanges(last.before).panic
    /\ k \in 1..Len(AddressRanges(last.before).ranges)
    /\ AddressRanges(last.before).ranges[k].start = last.src
    /\ \A j \in 1..(k - 1) : AddressRanges(last.before).ranges[j].start # last.src

\* no other range of the image before the call touches [dest, dest + S - 1]
DestStandsAlone(k) ==
    LET ranges == AddressRanges(last.before).ranges
        S == ranges[k].end - ranges[k].start + 1
    IN  \A i \in 1..Len(ranges) :
            i # k => (ranges[i].end + 1 < last.dest \/ last.dest + S < ranges[i].start)

\* C2: after a successful transpose(src, dest) of a range of size S,
\* address_ranges() has a range [dest, dest + S - 1] and none starting at src,
\* and every chunk of the source range is at dest + (old address - src).
\* Stated for a destination that no other range touches, where the moved range
\* cannot merge with a neighbour.
C2_TransposeRelocatesRange ==
    \A k \in 1..Len(last.before) :
        (TransposedFrom(k) /\ last.result = "ok" /\ DestStandsAlone(k)) =>
            LET src_range == AddressRanges(last.before).ranges[k]
                S == src_range.end - src_range.start + 1
                after == AddressRanges(data)
            IN  /\ ~after.panic
                /\ \E i \in 1..Len(after.ranges) :
                      after.ranges[i] = [start |-> last.dest, end |-> last.dest + S - 1]
                /\ \A i \in 1..Len(after.ranges) : after.ranges[i].start # last.src
                /\ \A i \in 1..Len(data) :
                      Contains(src_range, last.before[i].addr) =>
                          data[i].addr = last.dest + (last.before[i].addr - last.src)

\* the same for a source range made of one chunk
C2_SingleChunkRelocated ==
    \A k \in 1..Len(last.before) :
        (/\ TransposedFrom(k) /\ last.result = "ok" /\ DestStandsAlone(k)
         /\ Cardinality({i \in 1..Len(last.before) :
               Contains(AddressRanges(last.before).ranges[k], last.before[i].addr)}) = 1) =>
            LET src_range == AddressRanges(last.before).ranges[k]
                S == src_range.end - src_range.start + 1
                after == AddressRanges(data)
            IN  /\ ~after.panic
                /\ \E i \in 1..Len(after.ranges) :
                      after.ranges[i] = [start |-> last.dest, end |-> last.dest + S - 1]
                /\ \A i \in 1..Len(after.ranges) : after.ranges[i].start # last.src
                /\ \A i \in 1..Len(data) :
                      Contains(src_range, last.before[i].addr) =>
                          data[i].addr = last.dest + (last.before[i].addr - last.src)

\* C3: transpose(src, dest) fails with the overlap error whenever the
\* destination range shares an address with an existing range.
C3_OverlapRejected ==
    \A k \in 1..Len(last.before) :
        TransposedFrom(k) =>
            LET ranges == AddressRanges(last.before).ranges
                S == ranges[k].end - ranges[k].start + 1
                dest_addrs == last.dest..(last.dest + S - 1)
            IN  (\E i \in 1..Len(ranges) :
                    dest_addrs \cap (ranges[i].start..ranges[i].end) # {})
                    => last.result = "Overlap"

\* C4: a transpose that returns an error leaves the image as it was: the same
\* chunks (address and bytes) in the same order, hence the same ranges.
C4_FailedTransposeKeepsImage ==
    (last.op = "transpose" /\ last.result \in {"NoRange", "Overlap"})
        => /\ data = last.before
           /\ AddressRanges(data) = AddressRanges(last.before)

C4_Witness ==
    /\ last.op = "transpose"
    /\ last.result = "Overlap"
    /\ Len(data) >= 2
    /\ ~AddressRanges(data).panic
    /\ Len(AddressRanges(data).ranges) >= 2

\* the chunks the decoder is to yield for well-formed lines, in line order
RECURSIVE ExpectedChunks(_, _)
ExpectedChunks(lines, h) ==
    IF lines = <<>> THEN <<>>
    ELSE LET r == Head(lines)
         IN  IF IsData(r)
             THEN <<[addr |-> IF h = <<>> THEN r.off ELSE h[1] * 65536 + r.off,
                     data |-> r.bytes]>> \o ExpectedChunks(Tail(lines), h)
             ELSE IF IsEsa(r)
                  THEN ExpectedChunks(Tail(lines), <<r.bytes[1] * 256 + r.bytes[2]>>)
                  ELSE ExpectedChunks(Tail(lines), h)

Count(s, x) == Cardinality({i \in 1..Len(s) : s[i] = x})
SameChunks(s, t) == \A x \in Range(s) \cup Range(t) : Count(s, x) = Count(t, x)

\* the lines read so far are lines of the input, all well-formed
ReadPrefix ==
    /\ line_idx <= Len(input)
    /\ \A i \in 1..line_idx : input[i].wf

\* C5: every Data record is stored at (h << 16) | offset for the most recent
\* Extended-Segment-Address record h before it, at offset when there is none;
\* an Extended-Segment-Address record adds no chunk and moves no earlier one.
C5_AddressFromLatestEsa ==
    /\ (pc = "decoding" /\ ReadPrefix)
          => data = ExpectedChunks(SubSeq(input, 1, line_idx), <<>>)
    /\ (Decoded /\ ReadPrefix)
          => SameChunks(data, ExpectedChunks(SubSeq(input, 1, line_idx), <<>>))

C5_Witness ==
    /\ pc = "decoding"
    /\ line_idx = 3
    /\ Len(input) >= 3
    /\ IsEsa(input[1]) /\ IsEsa(input[2]) /\ input[1] # input[2]
    /\ IsData(input[3])
    /\ data = <<[addr |-> 2 * 65536 + 16, data |-> input[3].bytes]>>

\* an EOF record that the decoder reaches is followed by a non-empty line
EofThenLine(k) ==
    /\ k < Len(input)
    /\ input[k] = EofLine
    /\ \A i \in 1..(k - 1) : input[i].wf /\ input[i].type \in {0, 3, 4}
    /\ input[k + 1].text # <<>>

\* C6: when an EOF record is followed by a further non-empty line,
\* into_hex_file fails with the trailing-data error and returns no image.
C6_TrailingDataFails ==
    \A k \in 1..Len(input) :
        (EofThenLine(k) /\ (pc # "decoding" \/ line_idx >= k))
            => pc = "failed" /\ err.kind = "LineAfterEof"

NumericFormatErrors ==
    {"ParseIntError", "Utf8Error", "NoKindField", "NoLenField", "NoAddrField",
     "NoCsField", "NoIpField", "NoAddrHiField"}

\* C10: every numeric-format failure yields an error naming the 1-based
\* number of the line it occurred on.
C10_FormatErrorNamesLine ==
    (pc = "failed" /\ err.kind \in NumericFormatErrors)
        => err.line >= 1 /\ err.line = line_idx

-----------------------------------------------------------------------------
(* Properties of the emitted ELF file, read back from its bytes *)

U16At(b, off) == b[off + 1] + 256 * b[off + 2]
U32At(b, off) == b[off + 1] + 256 * b[off + 2] + 65536 * b[off + 3] + 16777216 * b[off + 4]

ShOff == U32At(elf_data, 32)
ShNum == U16At(elf_data, 48)
ShStrIdx == U16At(elf_data, 50)

\* the fields of the i-th entry (from 0) of the section header table
ShName(i) == U32At(elf_data, ShOff + SectionHeaderSize * i)
ShType(i) == U32At(elf_data, ShOff + SectionHeaderSize * i + 4)
ShAddr(i) == U32At(elf_data, ShOff + SectionHeaderSize * i + 12)
ShOffset(i) == U32At(elf_data, ShOff + SectionHeaderSize * i + 16)
ShSize(i) == U32At(elf_data, ShOff + SectionHeaderSize * i + 20)

\* the NUL-terminated string at 0-based position pos of the file
RECURSIVE StringAt(_)
StringAt(pos) ==
    IF pos >= Len(elf_data) \/ elf_data[pos + 1] = 0 THEN <<>>
    ELSE <<elf_data[pos + 1]>> \o StringAt(pos + 1)

SectionName(i) == StringAt(ShOffset(ShStrIdx) + ShName(i))

\* the ranges after the split at the vector-table boundary, which divides a
\* range only when it lies strictly inside it
RECURSIVE ExpectedSplit(_)
ExpectedSplit(ranges) ==
    IF ranges = <<>> THEN <<>>
    ELSE LET r == Head(ranges)
         IN  (IF r.start < VECTOR_TABLE_END /\ VECTOR_TABLE_END < r.end
              THEN <<[start |-> r.start, end |-> VECTOR_TABLE_END - 1],
                     [start |-> VECTOR_TABLE_END, end |-> r.end]>>
              ELSE <<r>>) \o ExpectedSplit(Tail(ranges))

InOneWindow(r) ==
    \E w \in {FLASH_DATA_RANGE, CODE_RANGE, OPT_RANGE, SRAM_RANGE} :
        w.start <= r.start /\ r.end <= w.end

NonEmptyChunks(ds) == \A i \in 1..Len(ds) : Len(ds[i].data) >= 1

DisjointChunks(ds) ==
    \A i, j \in 1..Len(ds) :
        i # j => (ds[i].addr + Len(ds[i].data) <= ds[j].addr
                  \/ ds[j].addr + Len(ds[j].data) <= ds[i].addr)

\* C7: to_elf_file splits a range only when 0xC0 lies strictly inside it;
\* every other range, one starting or ending at 0xC0 included, becomes one
\* section unchanged and the emitter does not abort.
C7_SplitOnlyStrictlyInside ==
    (/\ last.op = "to_elf_file"
     /\ NonEmptyChunks(last.before)
     /\ ~AddressRanges(last.before).panic
     /\ \A i \in 1..Len(ExpectedSplit(AddressRanges(last.before).ranges)) :
           InOneWindow(ExpectedSplit(AddressRanges(last.before).ranges)[i]))
        => LET exp == ExpectedSplit(AddressRanges(last.before).ranges)
           IN  /\ pc = "emitted"
               /\ ShNum = Len(exp) + 1
               /\ \A i \in 1..Len(exp) :
                     /\ ShAddr(i - 1) = exp[i].start
                     /\ ShSize(i - 1) = exp[i].end - exp[i].start + 1

\* the byte the image holds at an address
ByteAt(ds, a) ==
    LET k == CHOOSE i \in 1..Len(ds) :
                 ds[i].addr <= a /\ a < ds[i].addr + Len(ds[i].data)
    IN  ds[k].data[a - ds[k].addr + 1]

HoldsByte(ds, a) ==
    \E i \in 1..Len(ds) : ds[i].addr <= a /\ a < ds[i].addr + Len(ds[i].data)

\* C8: in an emitted file every PROGBITS header describes the bytes written
\* for its section: they begin at its offset, there are as many as its size,
\* and they are the image's bytes at its addresses, in order.
C8_HeadersDescribeBytes ==
    (pc = "emitted" /\ NonEmptyChunks(data) /\ DisjointChunks(data))
        => \A i \in 0..(ShNum - 2) :
              /\ ShOffset(i + 1) = ShOffset(i) + ShSize(i)
              /\ \A j \in 0..(ShSize(i) - 1) :
                    /\ HoldsByte(data, ShAddr(i) + j)
                    /\ elf_data[ShOffset(i) + j + 1] = ByteAt(data, ShAddr(i) + j)

\* C9: for N ranges after the split, the section header table holds N PROGBITS
\* entries in range order and then one STRTAB entry, the header counts N + 1
\* sections and names entry N as the string table; one 4-byte chunk in the
\* flash window gives one PROGBITS section named .flash and the STRTAB section.
C9_SectionTableShape ==
    pc = "emitted" =>
        LET exp == ExpectedSplit(AddressRanges(data).ranges)
            N == Len(exp)
        IN  /\ ShNum = N + 1
            /\ ShStrIdx = N
            /\ Len(elf_data) = ShOff + SectionHeaderSize * (N + 1)
            /\ \A i \in 1..N : ShType(i - 1) = SHT_PROGBITS /\ ShAddr(i - 1) = exp[i].start
            /\ ShType(N) = SHT_STRTAB
            /\ SubSeq(elf_data, 1, 4) = <<127, 69, 76, 70>>
            /\ (/\ Len(data) = 1
                /\ Len(data[1].data) = 4
                /\ data[1].addr + 3 < VECTOR_TABLE_END)
                  => /\ N = 1
                     /\ SectionName(0) = <<46, 102, 108, 97, 115, 104>>
                     /\ elf_data[5] = 1
                     /\ U16At(elf_data, 18) = 40

C9_Witness ==
    /\ pc = "emitted"
    /\ Len(AddressRanges(data).ranges) = 2
    /\ ShNum = 4
    /\ ShAddr(0) < VECTOR_TABLE_END
    /\ ShAddr(1) = VECTOR_TABLE_END

-----------------------------------------------------------------------------
(* Properties of the decoder's reading of lines *)

\* the line is ":" and hexadecimal digits, long enough to hold the header
\* fields, and its type field is 00
HexDataLine(t) ==
    /\ Len(t) >= 9
    /\ t[1] = ":"
    /\ \A i \in 2..Len(t) : IsHexDigit(t[i])
    /\ t[8] = "0" /\ t[9] = "0"

DeclaredLen(t) == 16 * DigitVal(t[2]) + DigitVal(t[3])
DeclaredOff(t) == 4096 * DigitVal(t[4]) + 256 * DigitVal(t[5])
                    + 16 * DigitVal(t[6]) + DigitVal(t[7])

\* the complete two-digit pairs from byte offset 9 on
CompletePairs(t) == (Len(t) - 9) \div 2
PairByte(t, i) == 16 * DigitVal(t[8 + 2 * i]) + DigitVal(t[9 + 2 * i])

\* line k is the line the decoder has read last
JustRead(k) == k >= 1 /\ k = line_idx /\ k <= Len(input) /\ pc \in {"decoding", "failed"}

\* C11: a Data line declaring length L yields a chunk of the L bytes written
\* as two-digit pairs from byte offset 9, in order; a line with fewer than L
\* complete pairs after offset 9 fails with the truncated-data error and
\* yields no chunk.
C11_DataBytesOrTruncated ==
    \A k \in 1..Len(input) :
        (JustRead(k) /\ HexDataLine(input[k].text)) =>
            LET t == input[k].text
                L == DeclaredLen(t)
            IN  IF CompletePairs(t) >= L
                THEN /\ ~(pc = "failed" /\ err.line = k)
                     /\ pc = "decoding" =>
                           /\ data # <<>>
                           /\ data[Len(data)].data = [i \in 1..L |-> PairByte(t, i)]
                ELSE /\ pc = "failed"
                     /\ err = LineErr("TooFewData", k)
                     /\ data = <<>>

\* the same for lines that hold no digit outside a complete pair
C11_WholePairsOrTruncated ==
    \A k \in 1..Len(input) :
        (JustRead(k) /\ HexDataLine(input[k].text) /\ Len(input[k].text) % 2 = 1) =>
            LET t == input[k].text
                L == DeclaredLen(t)
            IN  IF CompletePairs(t) >= L
                THEN /\ ~(pc = "failed" /\ err.line = k)
                     /\ pc = "decoding" =>
                           /\ data # <<>>
                           /\ data[Len(data)].data = [i \in 1..L |-> PairByte(t, i)]
                ELSE /\ pc = "failed"
                     /\ err = LineErr("TooFewData", k)
                     /\ data = <<>>

-----------------------------------------------------------------------------
(* Properties of reading the image back *)

InputAddrs == UNION {LineAddrs(input[i]) : i \in 1..(Len(input) - 1)}

\* the Data records of the input, in whatever line order, tile one run of
\* addresses without gap or overlap
ContiguousRun ==
    /\ DataOnlyInput
    /\ NoOverlapInput
    /\ InputAddrs # {}
    /\ \A a, b \in InputAddrs : \A c \in a..b : c \in InputAddrs

RunStart == CHOOSE a \in InputAddrs : \A b \in InputAddrs : a <= b

\* the byte the input gives for address a
InputByte(a) ==
    LET i == CHOOSE j \in 1..(Len(input) - 1) : a \in LineAddrs(input[j])
    IN  input[i].bytes[a - input[i].off + 1]

RunBytes == [i \in 1..Cardinality(InputAddrs) |-> InputByte(RunStart + i - 1)]

\* C12: for an input whose Data records, in any line order, form one
\* contiguous run of L bytes, address_ranges() returns one range and
\* data_in_range of that range returns the L input bytes in ascending address
\* order.
C12_RoundTrip ==
    (Decoded /\ ContiguousRun) =>
        /\ ~AddressRanges(data).panic
        /\ Len(AddressRanges(data).ranges) = 1
        /\ ~DataInRange(data, AddressRanges(data).ranges[1]).panic
        /\ DataInRange(data, AddressRanges(data).ranges[1]).bytes = RunBytes

\* the same for inputs whose Data records all hold at least one byte
C12_NonEmptyRoundTrip ==
    (Decoded /\ ContiguousRun /\ \A i \in 1..(Len(input) - 1) : input[i].len >= 1) =>
        /\ ~AddressRanges(data).panic
        /\ Len(AddressRanges(data).ranges) = 1
        /\ ~DataInRange(data, AddressRanges(data).ranges[1]).panic
        /\ DataInRange(data, AddressRanges(data).ranges[1]).bytes = RunBytes

-----------------------------------------------------------------------------
(* Properties of AddrRange *)

\* the ranges of the image at hand, those with start <= end
ImageRanges ==
    IF pc \in {"ready", "emitted"} /\ ~AddressRanges(data).panic
    THEN {r \in Range(AddressRanges(data).ranges) : 0 <= r.start /\ r.start <= r.end}
    ELSE {}

\* C13: split(p) of a range [start, end] with start < p < end returns
\* [start, p - 1] and [p, end], whose sizes sum to the size of the range;
\* split at p <= start or p >= end aborts and returns no ranges.
C13_SplitAtInnerPoint ==
    \A r \in ImageRanges : \A p \in (r.start - 1)..(r.end + 1) :
        IF r.start < p /\ p < r.end
        THEN /\ ~Split(r, p).panic
             /\ Split(r, p).before = [start |-> r.start, end |-> p - 1]
             /\ Split(r, p).after = [start |-> p, end |-> r.end]
             /\ ~Size(Split(r, p).before).panic
             /\ ~Size(Split(r, p).after).panic
             /\ Size(Split(r, p).before).val + Size(Split(r, p).after).val = Size(r).val
        ELSE Split(r, p).panic

\* to_elf_file has split a range of the image at VECTOR_TABLE_END, a point
\* strictly inside it, and the image has a second range
C13_Witness ==
    /\ pc = "emitted"
    /\ Cardinality(ImageRanges) >= 2
    /\ \E r \in ImageRanges :
          /\ r.start + 1 < VECTOR_TABLE_END /\ VECTOR_TABLE_END < r.end
          /\ ~Split(r, VECTOR_TABLE_END).panic
          /\ Split(r, r.start).panic /\ Split(r, r.end).panic

-----------------------------------------------------------------------------
(* Properties of the decoder's progress through the buffer *)

\* the length of the lines after line k, each with its line break
RECURSIVE RestLen(_)
RestLen(k) ==
    IF k >= Len(input) THEN 0
    ELSE Len(input[k + 1].text) + 1 + RestLen(k + 1)

\* C14: into_hex_file terminates on every finite buffer, also one whose last
\* line is neither newline-terminated nor an EOF record: each call of
\* next_line shortens the remaining buffer, so after k lines the buffer holds
\* at most the lines after line k, and no line is read twice.
C14_EveryLineReadOnce ==
    pc = "decoding" =>
        /\ line_idx <= Len(input)
        /\ Len(buf) <= RestLen(line_idx)

\* the same for buffers whose last line is newline-terminated
C14_TerminatedLinesReadOnce ==
    (pc = "decoding" /\ (buf = <<>> \/ buf[Len(buf)] = "\n")) =>
        /\ line_idx <= Len(input)
        /\ Len(buf) <= RestLen(line_idx)

-----------------------------------------------------------------------------
(* Properties of the chunk order *)

SortedByAddr(ds) == \A i, j \in 1..Len(ds) : i < j => ds[i].addr <= ds[j].addr

\* the ranges ascend, and each starts beyond the address after the end of the
\* one before it
AscendingMaximal(ranges) ==
    \A i, j \in 1..Len(ranges) : i < j => ranges[i].end + 1 < ranges[j].start

\* the image as into_hex_file returned it, or after a successful transpose
Constructed == pc = "ready" /\ last.op = "none"
Transposed == pc = "ready" /\ last.op = "transpose" /\ last.result = "ok"

\* C15: after construction and after successful transpose calls the chunks
\* are still sorted ascending by address, and address_ranges() returns
\* ascending ranges of which no two are adjacent or overlap.  Stated for
\* images of one or more chunks that hold at least one byte each and share
\* no address.
C15_ChunksStaySorted ==
    ((Constructed \/ Transposed) /\ data # <<>>
        /\ NonEmptyChunks(data) /\ DisjointChunks(data)) =>
        /\ SortedByAddr(data)
        /\ ~AddressRanges(data).panic
        /\ AscendingMaximal(AddressRanges(data).ranges)

\* the same for the image as into_hex_file returned it
C15_SortedAfterConstruction ==
    (Constructed /\ data # <<>> /\ NonEmptyChunks(data) /\ DisjointChunks(data)) =>
        /\ SortedByAddr(data)
        /\ ~AddressRanges(data).panic
        /\ AscendingMaximal(AddressRanges(data).ranges)

-----------------------------------------------------------------------------
(* Properties of the stored chunks *)

\* the chunk holds a byte, and addr + len - 1 stays within 0 .. 2^32 - 1 and
\* is no less than addr
ChunkHasEnd(d) ==
    /\ Len(d.data) >= 1
    /\ ~SubOverflows(d.addr + Len(d.data), 1)
    /\ ~DataAddrRange(d).panic
    /\ Le32(DataAddrRange(d).range.start, DataAddrRange(d).range.end)

\* C16: every chunk of an image returned by into_hex_file holds at least one
\* byte, so addr_range() has start <= end and addr + len - 1 never goes below
\* zero in u32, for every accepted Data line, one declaring length 00
\* included.
C16_ChunksHoldBytes ==
    Decoded => \A i \in 1..Len(data) : ChunkHasEnd(data[i])

\* the same for inputs of well-formed lines whose Data records all declare a
\* length of at least 01
C16_DeclaredBytesHeld ==
    (Decoded /\ \A i \in 1..Len(input) : input[i].wf /\ (IsData(input[i]) => input[i].len >= 1))
        => \A i \in 1..Len(data) : ChunkHasEnd(data[i])

====
